---- MODULE Spec2Model ----
(***************************************************************************)
(* The generic stack of src/stacks.c: a linked list of Stack_Chunk_t, one   *)
(* Stack_Entry_t per chunk, the bottom chunk linked to itself.             *)
(*                                                                         *)
(* The heap is the function chunks; a stack is the chunk its top pointer   *)
(* names.  The interpreter holds two top pointers, interp.dynamic_env and  *)
(* interp.user_stack (CONTEXT(interp->ctx)->user_stack).                   *)
(*                                                                         *)
(* Each call is one step.  op, exception, dest, ret and events are what    *)
(* the last call was given and what it gave back; before and prior are     *)
(* history: the entries the last call found, and the rotation it followed. *)
(* out and log are what the last call that only reads gave back.           *)
(*                                                                         *)
(* Five specifications call the functions with different arguments: Spec   *)
(* (push, pop, rotate), SpecTyped (push and pop with every type),          *)
(* SpecRotate (push, rotate, pop), SpecEntry (both stacks, read at every   *)
(* depth) and SpecRead (peek, mark and dump of a stack of every tag).      *)
(* rotate_entries is called with num_entries in RotateArgs, which leaves   *)
(* out the one INTVAL whose negation overflows.                            *)
(***************************************************************************)
EXTENDS Integers, Sequences, FiniteSets, TLC

\* Spec pushes while the stack is lower than MaxHeight, SpecTyped and SpecRead
\* while it is lower than MaxTypedHeight, SpecEntry while either of the two
\* stacks is lower than MaxEntryHeight.
MaxHeight == 3
MaxTypedHeight == 2
MaxEntryHeight == 2

----------------------------------------------------------------------------
(* Stack_entry_type.  NO_STACK_ENTRY_TYPE is the value 0 ("we don't care"); *)
(* STACK_ENTRY_UNKNOWN stands for any value no case label names.            *)

NO_STACK_ENTRY_TYPE == "NO_STACK_ENTRY_TYPE"
STACK_ENTRY_INT == "STACK_ENTRY_INT"
STACK_ENTRY_FLOAT == "STACK_ENTRY_FLOAT"
STACK_ENTRY_STRING == "STACK_ENTRY_STRING"
STACK_ENTRY_PMC == "STACK_ENTRY_PMC"
STACK_ENTRY_POINTER == "STACK_ENTRY_POINTER"
STACK_ENTRY_DESTINATION == "STACK_ENTRY_DESTINATION"
STACK_ENTRY_MARK == "STACK_ENTRY_MARK"
STACK_ENTRY_ACTION == "STACK_ENTRY_ACTION"
STACK_ENTRY_UNKNOWN == "STACK_ENTRY_UNKNOWN"

EntryTypes ==
  { STACK_ENTRY_INT, STACK_ENTRY_FLOAT, STACK_ENTRY_STRING, STACK_ENTRY_PMC,
    STACK_ENTRY_POINTER, STACK_ENTRY_DESTINATION, STACK_ENTRY_MARK,
    STACK_ENTRY_ACTION }

AnyType == EntryTypes \cup {NO_STACK_ENTRY_TYPE, STACK_ENTRY_UNKNOWN}

(* Stack_cleanup_method: the null method and two finalizers.                *)
STACK_CLEANUP_NULL == "STACK_CLEANUP_NULL"
CleanupA == "cleanup_a"
CleanupB == "cleanup_b"
Cleanups == {STACK_CLEANUP_NULL, CleanupA, CleanupB}

(* Error codes handed to internal_exception.                                *)
NoException == "none"
ERROR_BAD_STACK_TYPE == "ERROR_BAD_STACK_TYPE"
ERROR_STACK_SHALLOW == "ERROR_STACK_SHALLOW"

(* The null pointer: no chunk, no entry.  Chunk addresses start at 1.        *)
NULL == 0

----------------------------------------------------------------------------
(* UnionVal: the members overlay one another; a value is the member last    *)
(* written and the bits written.  Bits 0 is the null pointer / zero.        *)

UVal_int == "_int_val"
UVal_num == "_num_val"
UVal_pmc == "_pmc_val"
UVal_str == "_string_val"
UVal_ptr == "_ptr_val"

Things == {0, 1}
Members == {UVal_int, UVal_num, UVal_pmc, UVal_str, UVal_ptr}
UVals == [member : Members, bits : Things]

(* Reading member m of u.  INTVAL and the three pointers are one machine    *)
(* word, so one of them read through another gives the same bits; a        *)
(* FLOATVAL read as a word (or a word as a FLOATVAL) gives the bit pattern, *)
(* which is the same number only for zero.                                  *)
WordMembers == {UVal_int, UVal_pmc, UVal_str, UVal_ptr}
BitPattern(b) == 0 - b
ReadUVal(u, m) ==
  IF u.member = m \/ (u.member \in WordMembers /\ m \in WordMembers)
  THEN u.bits
  ELSE BitPattern(u.bits)

(* Stack_Entry_t.                                                           *)
Entries == [entry_type : AnyType, entry : UVals, cleanup : Cleanups]

(* The entry slot of a chunk nothing was pushed into (the base chunk).      *)
NoEntry ==
  [ entry_type |-> NO_STACK_ENTRY_TYPE,
    entry |-> [member |-> UVal_int, bits |-> 0],
    cleanup |-> STACK_CLEANUP_NULL ]

----------------------------------------------------------------------------
(* The heap.  chunks[c].prev = NULL marks c as not allocated.               *)

ChunkIds == 1 .. (2 + MaxHeight + MaxTypedHeight + 2 * MaxEntryHeight)
StackRegs == {"user_stack", "dynamic_env"}

VARIABLES
  chunks,      \* ChunkIds -> [prev, name, data]: Stack_Chunk_t and STACK_DATAP
  interp,      \* StackRegs -> the top chunk of that stack
  op,          \* the last call: its name and arguments
  exception,   \* what the last call handed to internal_exception, or none
  dest,        \* *where after the last stack_pop
  ret,         \* what the last call returned
  events,      \* the finalizer calls and the copy to *where of the last call
  net,         \* StackRegs -> successful pushes minus successful pops
  before,      \* the entries of the stack of the last call, top first, before it
  prior,       \* SpecRotate: num_entries of the rotation the last one followed
  out,         \* what the last stack_height, stack_entry, stack_peek or
               \* get_entry_type returned, and *type after stack_peek
  log          \* what the last mark_stack reported live, or the last dump printed

vars ==
  <<chunks, interp, op, exception, dest, ret, events, net, before, prior, out, log>>

FreeChunk == [prev |-> NULL, name |-> "", data |-> NoEntry]
BaseChunk(c, name) == [prev |-> c, name |-> name, data |-> NoEntry]

(* STACK_DATAP(chunk): the entry slot of a chunk, read and written.         *)
STACK_DATAP(ch, c) == ch[c].data
StoreEntry(ch, c, e) == [ch EXCEPT ![c].data = e]

----------------------------------------------------------------------------
(* stack_height: the chunks from chunk down to, not counting, the one      *)
(* linked to itself.                                                        *)

\* Mutant: the chunk linked to itself is counted too.
RECURSIVE stack_height_CountsBase(_, _)
stack_height_CountsBase(ch, chunk) ==
  IF chunk = ch[chunk].prev
  THEN 1
  ELSE 1 + stack_height_CountsBase(ch, ch[chunk].prev)

RECURSIVE stack_height(_, _)
stack_height(ch, chunk) ==
  IF chunk = ch[chunk].prev THEN 0 ELSE 1 + stack_height(ch, ch[chunk].prev)

(* stack_entry: the while loop, then the two returns.  The result is the    *)
(* chunk whose slot the returned pointer names, or NULL.                    *)

RECURSIVE EntryWalk(_, _, _)
EntryWalk(ch, chunk, offset) ==
  IF offset = 0 \/ chunk = ch[chunk].prev
  THEN chunk
  ELSE EntryWalk(ch, ch[chunk].prev, offset - 1)

\* Mutant: the test for the chunk linked to itself after the loop is missing.
EntryAtOffset_NoBaseTest(ch, stack, offset) == EntryWalk(ch, stack, offset)

EntryAtOffset(ch, stack, offset) ==
  LET chunk == EntryWalk(ch, stack, offset)
  IN  IF chunk = ch[chunk].prev THEN NULL ELSE chunk

\* Mutant: a negative depth is counted from the bottom of the stack passed.
stack_entry_OwnHeight(ch, user_stack, stack, depth) ==
  IF depth < 0
  THEN LET adjusted == stack_height(ch, stack) + depth
       IN  IF adjusted < 0 THEN NULL ELSE EntryAtOffset(ch, stack, adjusted)
  ELSE EntryAtOffset(ch, stack, depth)

stack_entry(ch, user_stack, stack, depth) ==
  IF depth < 0
  THEN LET adjusted == stack_height(ch, user_stack) + depth
       IN  IF adjusted < 0 THEN NULL ELSE EntryAtOffset(ch, stack, adjusted)
  ELSE EntryAtOffset(ch, stack, depth)

----------------------------------------------------------------------------
(* rotate_entries.  The two loops copy one whole Stack_Entry_t per step,    *)
(* each slot found again with stack_entry.  The result is the heap and     *)
(* the error raised; internal_exception does not return, so a raise leaves *)
(* the heap as it was.                                                      *)

\* Mutant: the loop of the bubble down stops one step early (i > 1).
RECURSIVE RotateDownLoop_StopsEarly(_, _, _, _)
RotateDownLoop_StopsEarly(ch, user_stack, stack, i) ==
  IF i > 1
  THEN RotateDownLoop_StopsEarly(
         StoreEntry(ch, stack_entry(ch, user_stack, stack, i),
                    STACK_DATAP(ch, stack_entry(ch, user_stack, stack, i - 1))),
         user_stack, stack, i - 1)
  ELSE ch

RECURSIVE RotateDownLoop(_, _, _, _)
RotateDownLoop(ch, user_stack, stack, i) ==
  IF i > 0
  THEN RotateDownLoop(
         StoreEntry(ch, stack_entry(ch, user_stack, stack, i),
                    STACK_DATAP(ch, stack_entry(ch, user_stack, stack, i - 1))),
         user_stack, stack, i - 1)
  ELSE ch

\* Mutant: the bubble up copies the tag and the payload of an entry and
\* leaves the cleanup of the slot written.
RECURSIVE RotateUpLoop_LeavesCleanup(_, _, _, _, _)
RotateUpLoop_LeavesCleanup(ch, user_stack, stack, i, depth) ==
  IF i < depth
  THEN RotateUpLoop_LeavesCleanup(
         StoreEntry(ch, stack_entry(ch, user_stack, stack, i),
                    [STACK_DATAP(ch, stack_entry(ch, user_stack, stack, i + 1))
                       EXCEPT !.cleanup =
                         STACK_DATAP(ch, stack_entry(ch, user_stack, stack, i)).cleanup]),
         user_stack, stack, i + 1, depth)
  ELSE ch

\* Mutant: the loop of the bubble up stops one step early (i < depth - 1).
RECURSIVE RotateUpLoop_StopsEarly(_, _, _, _, _)
RotateUpLoop_StopsEarly(ch, user_stack, stack, i, depth) ==
  IF i < depth - 1
  THEN RotateUpLoop_StopsEarly(
         StoreEntry(ch, stack_entry(ch, user_stack, stack, i),
                    STACK_DATAP(ch, stack_entry(ch, user_stack, stack, i + 1))),
         user_stack, stack, i + 1, depth)
  ELSE ch

RECURSIVE RotateUpLoop(_, _, _, _, _)
RotateUpLoop(ch, user_stack, stack, i, depth) ==
  IF i < depth
  THEN RotateUpLoop(
         StoreEntry(ch, stack_entry(ch, user_stack, stack, i),
                    STACK_DATAP(ch, stack_entry(ch, user_stack, stack, i + 1))),
         user_stack, stack, i + 1, depth)
  ELSE ch

\* Mutant: a stack too shallow makes the bubble down return, raising nothing.
RotateDown_ReturnsWhenShallow(ch, user_stack, stack, num_entries) ==
  LET depth == num_entries - 1
  IN  IF stack_height(ch, stack) < num_entries
      THEN [chunks |-> ch, exception |-> NoException]
      ELSE LET temp == STACK_DATAP(ch, stack_entry(ch, user_stack, stack, depth))
               moved == RotateDownLoop(ch, user_stack, stack, depth)
           IN  [ chunks |-> StoreEntry(moved,
                                       stack_entry(moved, user_stack, stack, 0),
                                       temp),
                 exception |-> NoException ]

RotateDown(ch, user_stack, stack, num_entries) ==
  LET depth == num_entries - 1
  IN  IF stack_height(ch, stack) < num_entries
      THEN [chunks |-> ch, exception |-> ERROR_STACK_SHALLOW]
      ELSE LET temp == STACK_DATAP(ch, stack_entry(ch, user_stack, stack, depth))
               moved == RotateDownLoop(ch, user_stack, stack, depth)
           IN  [ chunks |-> StoreEntry(moved,
                                       stack_entry(moved, user_stack, stack, 0),
                                       temp),
                 exception |-> NoException ]

\* Mutant: a positive num_entries bubbles down, as a negative one does.
RotateUp_BubblesDown(ch, user_stack, stack, num_entries) ==
  RotateDown(ch, user_stack, stack, num_entries)

RotateUp(ch, user_stack, stack, num_entries) ==
  LET depth == num_entries - 1
  IN  IF stack_height(ch, stack) < num_entries
      THEN [chunks |-> ch, exception |-> ERROR_STACK_SHALLOW]
      ELSE LET temp == STACK_DATAP(ch, stack_entry(ch, user_stack, stack, 0))
               moved == RotateUpLoop(ch, user_stack, stack, 0, depth)
           IN  [ chunks |-> StoreEntry(moved,
                                       stack_entry(moved, user_stack, stack, depth),
                                       temp),
                 exception |-> NoException ]

\* Mutant: the early return is taken for 0 only (> -1 and < 1).
rotate_entries_StrictGuard(ch, user_stack, stack, num_entries) ==
  IF num_entries > -1 /\ num_entries < 1
  THEN [chunks |-> ch, exception |-> NoException]
  ELSE IF num_entries < 0
       THEN RotateDown(ch, user_stack, stack, 0 - num_entries)
       ELSE RotateUp(ch, user_stack, stack, num_entries)

rotate_entries(ch, user_stack, stack, num_entries) ==
  IF num_entries >= -1 /\ num_entries <= 1
  THEN [chunks |-> ch, exception |-> NoException]
  ELSE IF num_entries < 0
       THEN RotateDown(ch, user_stack, stack, 0 - num_entries)
       ELSE RotateUp(ch, user_stack, stack, num_entries)

----------------------------------------------------------------------------
(* The chunk allocator (register_new_stack, stack_prepare_push,            *)
(* stack_prepare_pop): a fresh top chunk linked above the old top; the top  *)
(* chunk taken off, the list advanced to the chunk below it and the chunk  *)
(* given back.  The slot of a fresh chunk holds whatever was there.         *)

NewChunk(ch) ==
  CHOOSE c \in ChunkIds :
    /\ ch[c].prev = NULL
    /\ \A d \in ChunkIds : ch[d].prev = NULL => c <= d

stack_prepare_push(ch, top, stale) ==
  LET new == NewChunk(ch)
  IN  [ chunks |-> [ch EXCEPT ![new] = [prev |-> top, name |-> "", data |-> stale]],
        top |-> new ]

stack_prepare_pop(ch, top) ==
  [ chunks |-> [ch EXCEPT ![top] = FreeChunk],
    top |-> ch[top].prev,
    entry |-> ch[top].data ]

----------------------------------------------------------------------------
(* stack_push after stack_prepare_push: the slot as the switch leaves it,   *)
(* and the error raised.  thing is the INTVAL or FLOATVAL pointed to, or    *)
(* the pointer itself.  PushMember is the switch: the member a type's       *)
(* thing is stored in, NoMember for the default label.                      *)

NoMember == "default"

PushMember(type) ==
  CASE type \in {STACK_ENTRY_INT, STACK_ENTRY_MARK} -> UVal_int
    [] type = STACK_ENTRY_FLOAT -> UVal_num
    [] type \in {STACK_ENTRY_ACTION, STACK_ENTRY_PMC} -> UVal_pmc
    [] type = STACK_ENTRY_STRING -> UVal_str
    [] type \in {STACK_ENTRY_POINTER, STACK_ENTRY_DESTINATION} -> UVal_ptr
    [] OTHER -> NoMember

\* Mutant: the type is looked at before the tag and the cleanup are stored.
stack_push_ChecksFirst(slot, thing, type, cleanup) ==
  IF PushMember(type) # NoMember
  THEN [ data |-> [ entry_type |-> type,
                    entry |-> [member |-> PushMember(type), bits |-> thing],
                    cleanup |-> cleanup ],
         exception |-> NoException ]
  ELSE [data |-> slot, exception |-> ERROR_BAD_STACK_TYPE]

stack_push(slot, thing, type, cleanup) ==
  LET tagged == [slot EXCEPT !.entry_type = type, !.cleanup = cleanup]
  IN  IF PushMember(type) # NoMember
      THEN [ data |-> [tagged EXCEPT
                         !.entry = [member |-> PushMember(type), bits |-> thing]],
             exception |-> NoException ]
      ELSE [data |-> tagged, exception |-> ERROR_BAD_STACK_TYPE]

----------------------------------------------------------------------------
(* stack_pop after stack_prepare_pop, on the entry taken off: the error     *)
(* raised, the finalizer calls and the copy in the order made, *where, and  *)
(* the value returned.                                                      *)

Unwritten == [written |-> FALSE, member |-> UVal_int, bits |-> 0]
Written(m, b) == [written |-> TRUE, member |-> m, bits |-> b]
CopyEvent == "copy"
RetNone == "none"
RetNull == "NULL"
RetWhere == "where"

\* Mutant: the tag of the entry is never compared with the type asked for.
TypeMismatch_Never(entry, type) == FALSE

\* Mutant: type 0 is compared with the tag like any other type.
TypeMismatch_NoWildcard(entry, type) == entry.entry_type # type

\* if (type && entry->entry_type != type)
TypeMismatch(entry, type) ==
  type # NO_STACK_ENTRY_TYPE /\ entry.entry_type # type

\* Mutant: the finalizer is never called.
PopCleanup_Never(entry) == <<>>

\* if (entry->cleanup != STACK_CLEANUP_NULL): the call of entry->cleanup.
\* The finalizer is the caller's: the call is recorded, and it is taken to
\* leave the stacks alone.
PopCleanup(entry) ==
  IF entry.cleanup # STACK_CLEANUP_NULL THEN <<entry.cleanup>> ELSE <<>>

\* Mutant: STACK_ENTRY_FLOAT is copied out through the INTVAL member.
PopMember_FloatAsInt(type) ==
  CASE type \in {STACK_ENTRY_MARK, STACK_ENTRY_INT, STACK_ENTRY_FLOAT} -> UVal_int
    [] type \in {STACK_ENTRY_ACTION, STACK_ENTRY_PMC} -> UVal_pmc
    [] type = STACK_ENTRY_STRING -> UVal_str
    [] type \in {STACK_ENTRY_POINTER, STACK_ENTRY_DESTINATION} -> UVal_ptr
    [] OTHER -> NoMember

(* The switch of stack_pop: the member copied to *where.                    *)
PopMember(type) ==
  CASE type \in {STACK_ENTRY_MARK, STACK_ENTRY_INT} -> UVal_int
    [] type = STACK_ENTRY_FLOAT -> UVal_num
    [] type \in {STACK_ENTRY_ACTION, STACK_ENTRY_PMC} -> UVal_pmc
    [] type = STACK_ENTRY_STRING -> UVal_str
    [] type \in {STACK_ENTRY_POINTER, STACK_ENTRY_DESTINATION} -> UVal_ptr
    [] OTHER -> NoMember

\* Mutant: the finalizer is called before the tag of the entry is compared.
stack_pop_CleanupFirst(entry, where, type) ==
  LET called == PopCleanup(entry)
  IN  IF TypeMismatch(entry, type)
      THEN [ exception |-> ERROR_BAD_STACK_TYPE, events |-> called,
             dest |-> Unwritten, ret |-> RetNone ]
      ELSE IF ~where
           THEN [ exception |-> NoException, events |-> called,
                  dest |-> Unwritten, ret |-> RetNull ]
           ELSE IF PopMember(type) # NoMember
                THEN [ exception |-> NoException,
                       events |-> Append(called, CopyEvent),
                       dest |-> Written(PopMember(type),
                                        ReadUVal(entry.entry, PopMember(type))),
                       ret |-> RetWhere ]
                ELSE [ exception |-> ERROR_BAD_STACK_TYPE, events |-> called,
                       dest |-> Unwritten, ret |-> RetNone ]

stack_pop(entry, where, type) ==
  IF TypeMismatch(entry, type)
  THEN [ exception |-> ERROR_BAD_STACK_TYPE, events |-> <<>>,
         dest |-> Unwritten, ret |-> RetNone ]
  ELSE LET called == PopCleanup(entry)
       IN  IF ~where
           THEN [ exception |-> NoException, events |-> called,
                  dest |-> Unwritten, ret |-> RetNull ]
           ELSE IF PopMember(type) # NoMember
                THEN [ exception |-> NoException,
                       events |-> Append(called, CopyEvent),
                       dest |-> Written(PopMember(type),
                                        ReadUVal(entry.entry, PopMember(type))),
                       ret |-> RetWhere ]
                ELSE [ exception |-> ERROR_BAD_STACK_TYPE, events |-> called,
                       dest |-> Unwritten, ret |-> RetNone ]

----------------------------------------------------------------------------
(* The calls that only read.  What stack_height, stack_entry, stack_peek    *)
(* and get_entry_type give back is a record: the entry returned (the chunk  *)
(* whose slot it is), the Stack_entry_type returned or written to *type,   *)
(* and the number or pointer returned.                                      *)

TypeUnwritten == "unwritten"
NoOut == [entry |-> NULL, type |-> TypeUnwritten, value |-> 0]

\* Mutant: the payload is read through the member its tag selects, as
\* stack_pop reads it.
PeekMember_ByTag(entry_type) == PopMember(entry_type)

\* The switch of stack_peek: UVal_ptr for the two pointer tags, UVal_pmc for
\* every other tag.
PeekMember(entry_type) ==
  IF entry_type \in {STACK_ENTRY_POINTER, STACK_ENTRY_DESTINATION}
  THEN UVal_ptr
  ELSE UVal_pmc

\* type: whether the caller passed a place for the type (type != NULL).
stack_peek(ch, user_stack, stack_base, type) ==
  LET entry == stack_entry(ch, user_stack, stack_base, 0)
  IN  IF entry = NULL
      THEN NoOut
      ELSE LET e == STACK_DATAP(ch, entry)
           IN  [ entry |-> NULL,
                 type |-> IF type THEN e.entry_type ELSE TypeUnwritten,
                 value |-> ReadUVal(e.entry, PeekMember(e.entry_type)) ]

get_entry_type(ch, entry) == STACK_DATAP(ch, entry).entry_type

----------------------------------------------------------------------------
(* mark_stack: the calls of pobject_lives, in the order made.               *)

ChunkLive(chunk) == [kind |-> "chunk", obj |-> chunk]
ObjectLive(member, obj) == [kind |-> member, obj |-> obj]

\* Mutant: STACK_ENTRY_ACTION shares the label of STACK_ENTRY_PMC, as it does
\* in stack_push and stack_pop.
MarkEntry_ActionToo(entry) ==
  CASE entry.entry_type \in {STACK_ENTRY_PMC, STACK_ENTRY_ACTION} ->
         IF ReadUVal(entry.entry, UVal_pmc) # NULL
         THEN <<ObjectLive(UVal_pmc, ReadUVal(entry.entry, UVal_pmc))>>
         ELSE <<>>
    [] entry.entry_type = STACK_ENTRY_STRING ->
         IF ReadUVal(entry.entry, UVal_str) # NULL
         THEN <<ObjectLive(UVal_str, ReadUVal(entry.entry, UVal_str))>>
         ELSE <<>>
    [] OTHER -> <<>>

\* The switch on entry->entry_type.
MarkEntry(entry) ==
  CASE entry.entry_type = STACK_ENTRY_PMC ->
         IF ReadUVal(entry.entry, UVal_pmc) # NULL
         THEN <<ObjectLive(UVal_pmc, ReadUVal(entry.entry, UVal_pmc))>>
         ELSE <<>>
    [] entry.entry_type = STACK_ENTRY_STRING ->
         IF ReadUVal(entry.entry, UVal_str) # NULL
         THEN <<ObjectLive(UVal_str, ReadUVal(entry.entry, UVal_str))>>
         ELSE <<>>
    [] OTHER -> <<>>

RECURSIVE mark_stack(_, _)
mark_stack(ch, chunk) ==
  <<ChunkLive(chunk)>>
  \o (IF chunk = ch[chunk].prev
      THEN <<>>
      ELSE MarkEntry(STACK_DATAP(ch, chunk)) \o mark_stack(ch, ch[chunk].prev))

----------------------------------------------------------------------------
(* Parrot_dump_dynamic_environment: the lines printed, in order, and how    *)
(* the call ended.  For STACK_ENTRY_PMC and STACK_ENTRY_ACTION the second   *)
(* line reads thing->vtable; with thing the null pointer that read is       *)
(* undefined: faults says whether it stops the program there or goes on     *)
(* with whatever it read.                                                   *)

CONTROL_STACK_DAMAGED == "Control stack damaged"
NULL_DEREFERENCE == "null pointer dereference"

DumpLine(line, index, chunk, type, cleanup, thing) ==
  [ line |-> line, index |-> index, chunk |-> chunk, type |-> type,
    cleanup |-> cleanup, thing |-> thing ]
ChunkLine(height, chunk, e) ==
  DumpLine("chunk", height, chunk, e.entry_type, e.cleanup, 0)
PMCLine(thing) ==
  DumpLine("PMC", 0, NULL, NO_STACK_ENTRY_TYPE, STACK_CLEANUP_NULL, thing)
MarkLine(mark) ==
  DumpLine("mark", 0, NULL, NO_STACK_ENTRY_TYPE, STACK_CLEANUP_NULL, mark)
BaseLine(height, chunk) ==
  DumpLine("base", height, chunk, NO_STACK_ENTRY_TYPE, STACK_CLEANUP_NULL, 0)

\* The lines that follow the line of a chunk.
DumpEntry(e) ==
  IF e.entry_type = STACK_ENTRY_PMC \/ e.entry_type = STACK_ENTRY_ACTION
  THEN <<PMCLine(ReadUVal(e.entry, UVal_pmc))>>
  ELSE IF e.entry_type = STACK_ENTRY_MARK
       THEN <<MarkLine(ReadUVal(e.entry, UVal_int))>>
       ELSE <<>>

\* thing->vtable with thing == NULL.
DumpReadsNull(e) ==
  /\ (e.entry_type = STACK_ENTRY_PMC \/ e.entry_type = STACK_ENTRY_ACTION)
  /\ ReadUVal(e.entry, UVal_pmc) = NULL

RECURSIVE DumpWalk(_, _, _, _, _)
DumpWalk(ch, user_stack, dynamic_env, height, faults) ==
  IF ch[dynamic_env].prev = dynamic_env
  THEN [lines |-> <<BaseLine(height, dynamic_env)>>, exception |-> NoException]
  ELSE LET e == stack_entry(ch, user_stack, dynamic_env, 0)
       IN  IF e = NULL
           THEN [lines |-> <<>>, exception |-> CONTROL_STACK_DAMAGED]
           ELSE LET entry == STACK_DATAP(ch, e)
                    first == ChunkLine(height, dynamic_env, entry)
                    rest == DumpWalk(ch, user_stack, ch[dynamic_env].prev,
                                     height - 1, faults)
                IN  IF DumpReadsNull(entry) /\ faults
                    THEN [lines |-> <<first>>, exception |-> NULL_DEREFERENCE]
                    ELSE [ lines |-> <<first>> \o DumpEntry(entry) \o rest.lines,
                           exception |-> rest.exception ]

Parrot_dump_dynamic_environment(ch, user_stack, dynamic_env, faults) ==
  DumpWalk(ch, user_stack, dynamic_env, stack_height(ch, dynamic_env), faults)

----------------------------------------------------------------------------
(* The entries of a stack, top first: the slots of the chunks above the    *)
(* one linked to itself.                                                    *)

RECURSIVE StackContents(_, _)
StackContents(ch, chunk) ==
  IF ch[chunk].prev = chunk
  THEN <<>>
  ELSE <<ch[chunk].data>> \o StackContents(ch, ch[chunk].prev)

----------------------------------------------------------------------------
(* The state after construction: new_stack for each of the two stacks.      *)

NoOp ==
  [ name |-> "new_stack", reg |-> "dynamic_env", num_entries |-> 0,
    type |-> NO_STACK_ENTRY_TYPE, thing |-> 0, cleanup |-> STACK_CLEANUP_NULL,
    where |-> FALSE, depth |-> 0, typep |-> FALSE ]

Init ==
  /\ chunks = [c \in ChunkIds |->
                 CASE c = 1 -> BaseChunk(1, "user_stack")
                   [] c = 2 -> BaseChunk(2, "dynamic_env")
                   [] OTHER -> FreeChunk]
  /\ interp = [user_stack |-> 1, dynamic_env |-> 2]
  /\ op = NoOp
  /\ exception = NoException
  /\ dest = Unwritten
  /\ ret = RetNone
  /\ events = <<>>
  /\ net = [r \in StackRegs |-> 0]
  /\ before = <<>>
  /\ prior = 0
  /\ out = NoOut
  /\ log = <<>>

(* The stack the calls are made on, and the arguments they are made with.   *)
(* Spec pushes the entries of Pushed; SpecTyped pushes every type, each     *)
(* with both things and both cleanups: half the types take the finalizer    *)
(* with thing 1, the other half with thing 0.  SpecRotate pushes the        *)
(* entries of RotatePushed.                                                 *)
OpRegs == {"dynamic_env"}
RotateArgs == (0 - (MaxHeight + 1)) .. (MaxHeight + 1)
Pushed ==
  { [thing |-> 1, type |-> STACK_ENTRY_INT, cleanup |-> STACK_CLEANUP_NULL],
    [thing |-> 2, type |-> STACK_ENTRY_INT, cleanup |-> STACK_CLEANUP_NULL],
    [thing |-> 3, type |-> STACK_ENTRY_INT, cleanup |-> STACK_CLEANUP_NULL],
    [thing |-> 0, type |-> STACK_ENTRY_PMC, cleanup |-> CleanupA],
    [thing |-> 1, type |-> STACK_ENTRY_FLOAT, cleanup |-> CleanupA] }
RotatePushed ==
  { [thing |-> 1, type |-> STACK_ENTRY_INT, cleanup |-> STACK_CLEANUP_NULL],
    [thing |-> 0, type |-> STACK_ENTRY_PMC, cleanup |-> CleanupA],
    [thing |-> 1, type |-> STACK_ENTRY_FLOAT, cleanup |-> CleanupB] }
FinalizedWithOne ==
  { STACK_ENTRY_INT, STACK_ENTRY_STRING, STACK_ENTRY_POINTER, STACK_ENTRY_ACTION,
    STACK_ENTRY_UNKNOWN }
TypedPushed ==
  { [ thing |-> t, type |-> ty,
      cleanup |-> IF (ty \in FinalizedWithOne) = (t = 1)
                  THEN CleanupA
                  ELSE STACK_CLEANUP_NULL ] : t \in Things, ty \in AnyType }

(* What the slot of a fresh chunk may hold: a zero word or another one.     *)
StaleUVals == [member : {UVal_int}, bits : Things]

(* internal_exception does not return to its caller: a run ends at the      *)
(* first raise, with the state as the raise found it.                       *)
Running == exception = NoException

Push(reg, thing, type, cleanup) ==
  /\ Running
  /\ \E stale \in (IF type \in EntryTypes THEN {NoEntry.entry} ELSE StaleUVals) :
       LET prepared == stack_prepare_push(chunks, interp[reg],
                                          [NoEntry EXCEPT !.entry = stale])
           pushed == stack_push(STACK_DATAP(prepared.chunks, prepared.top),
                                thing, type, cleanup)
       IN  /\ chunks' = StoreEntry(prepared.chunks, prepared.top, pushed.data)
           /\ interp' = [interp EXCEPT ![reg] = prepared.top]
           /\ exception' = pushed.exception
           /\ net' = IF pushed.exception = NoException
                     THEN [net EXCEPT ![reg] = @ + 1]
                     ELSE net
  /\ op' = [NoOp EXCEPT !.name = "stack_push", !.reg = reg, !.thing = thing,
                        !.type = type, !.cleanup = cleanup]
  /\ dest' = Unwritten
  /\ ret' = RetNone
  /\ events' = <<>>
  /\ before' = StackContents(chunks, interp[reg])

(* stack_prepare_pop is given a stack with an entry on it.                  *)
Pop(reg, where, type) ==
  /\ Running
  /\ interp[reg] # chunks[interp[reg]].prev
  /\ LET prepared == stack_prepare_pop(chunks, interp[reg])
         popped == stack_pop(prepared.entry, where, type)
     IN  /\ chunks' = prepared.chunks
         /\ interp' = [interp EXCEPT ![reg] = prepared.top]
         /\ exception' = popped.exception
         /\ dest' = popped.dest
         /\ ret' = popped.ret
         /\ events' = popped.events
         /\ net' = IF popped.exception = NoException
                   THEN [net EXCEPT ![reg] = @ - 1]
                   ELSE net
  /\ op' = [NoOp EXCEPT !.name = "stack_pop", !.reg = reg, !.where = where,
                        !.type = type]
  /\ before' = StackContents(chunks, interp[reg])

Rotate(reg, num_entries) ==
  /\ Running
  /\ LET rotated == rotate_entries(chunks, interp.user_stack, interp[reg],
                                   num_entries)
     IN  /\ chunks' = rotated.chunks
         /\ exception' = rotated.exception
  /\ op' = [NoOp EXCEPT !.name = "rotate_entries", !.reg = reg,
                        !.num_entries = num_entries]
  /\ dest' = Unwritten
  /\ ret' = RetNone
  /\ events' = <<>>
  /\ before' = StackContents(chunks, interp[reg])
  /\ UNCHANGED <<interp, net>>

(* The calls that only read: what they return goes to out and log; they     *)
(* store nothing in a chunk or a top pointer and call no finalizer.         *)
Returned(call, result, reported) ==
  /\ op' = call
  /\ out' = result
  /\ log' = reported
  /\ dest' = Unwritten
  /\ ret' = RetNone
  /\ before' = StackContents(chunks, interp[call.reg])

StackHeight(reg) ==
  /\ Running
  /\ Returned([NoOp EXCEPT !.name = "stack_height", !.reg = reg],
              [NoOut EXCEPT !.value = stack_height(chunks, interp[reg])], <<>>)
  /\ exception' = NoException
  /\ events' = <<>>
  /\ UNCHANGED <<chunks, interp, net>>

StackEntry(reg, depth) ==
  /\ Running
  /\ Returned([NoOp EXCEPT !.name = "stack_entry", !.reg = reg, !.depth = depth],
              [NoOut EXCEPT !.entry = stack_entry(chunks, interp.user_stack,
                                                  interp[reg], depth)],
              <<>>)
  /\ exception' = NoException
  /\ events' = <<>>
  /\ UNCHANGED <<chunks, interp, net>>

\* Mutant: peeking takes the top entry off, as stack_pop does.
Peek_Detaches(reg, typep) ==
  /\ Running
  /\ Returned([NoOp EXCEPT !.name = "stack_peek", !.reg = reg, !.typep = typep],
              stack_peek(chunks, interp.user_stack, interp[reg], typep), <<>>)
  /\ exception' = NoException
  /\ events' = <<>>
  /\ IF interp[reg] # chunks[interp[reg]].prev
     THEN /\ chunks' = stack_prepare_pop(chunks, interp[reg]).chunks
          /\ interp' = [interp EXCEPT ![reg] = chunks[interp[reg]].prev]
     ELSE UNCHANGED <<chunks, interp>>
  /\ UNCHANGED net

Peek(reg, typep) ==
  /\ Running
  /\ Returned([NoOp EXCEPT !.name = "stack_peek", !.reg = reg, !.typep = typep],
              stack_peek(chunks, interp.user_stack, interp[reg], typep), <<>>)
  /\ exception' = NoException
  /\ events' = <<>>
  /\ UNCHANGED <<chunks, interp, net>>

\* get_entry_type is given an entry stack_entry returned.
GetEntryType(reg, depth) ==
  /\ Running
  /\ depth >= 0
  /\ stack_entry(chunks, interp.user_stack, interp[reg], depth) # NULL
  /\ LET entry == stack_entry(chunks, interp.user_stack, interp[reg], depth)
     IN  Returned([NoOp EXCEPT !.name = "get_entry_type", !.reg = reg,
                               !.depth = depth],
                  [NoOut EXCEPT !.entry = entry,
                                !.type = get_entry_type(chunks, entry)],
                  <<>>)
  /\ exception' = NoException
  /\ events' = <<>>
  /\ UNCHANGED <<chunks, interp, net>>

Mark(reg) ==
  /\ Running
  /\ Returned([NoOp EXCEPT !.name = "mark_stack", !.reg = reg], NoOut,
              mark_stack(chunks, interp[reg]))
  /\ exception' = NoException
  /\ events' = <<>>
  /\ UNCHANGED <<chunks, interp, net>>

Dump(reg) ==
  /\ Running
  /\ \E faults \in BOOLEAN :
       LET dumped == Parrot_dump_dynamic_environment(chunks, interp.user_stack,
                                                     interp[reg], faults)
       IN  /\ Returned([NoOp EXCEPT !.name = "Parrot_dump_dynamic_environment",
                                    !.reg = reg],
                       NoOut, dumped.lines)
           /\ exception' = dumped.exception
  /\ events' = <<>>
  /\ UNCHANGED <<chunks, interp, net>>

Next ==
  \/ \E reg \in OpRegs, p \in Pushed :
       /\ stack_height(chunks, interp[reg]) < MaxHeight
       /\ Push(reg, p.thing, p.type, p.cleanup)
       /\ UNCHANGED <<prior, out, log>>
  \/ \E reg \in OpRegs, where \in BOOLEAN, type \in AnyType :
       Pop(reg, where, type) /\ UNCHANGED <<prior, out, log>>
  \/ \E reg \in OpRegs, num_entries \in RotateArgs :
       Rotate(reg, num_entries) /\ UNCHANGED <<prior, out, log>>

Spec == Init /\ [][Next]_vars

NextTyped ==
  \/ \E reg \in OpRegs, p \in TypedPushed :
       /\ stack_height(chunks, interp[reg]) < MaxTypedHeight
       /\ Push(reg, p.thing, p.type, p.cleanup)
       /\ UNCHANGED <<prior, out, log>>
  \/ \E reg \in OpRegs, where \in BOOLEAN, type \in AnyType :
       Pop(reg, where, type) /\ UNCHANGED <<prior, out, log>>

SpecTyped == Init /\ [][NextTyped]_vars

(* SpecRotate: pushes, rotations and pops that discard the value; prior is  *)
(* the num_entries of the call before the last when that call was a         *)
(* rotation and the last a rotation or a pop, 0 otherwise.                  *)
NextRotate ==
  \/ \E reg \in OpRegs, p \in RotatePushed :
       /\ stack_height(chunks, interp[reg]) < MaxHeight
       /\ Push(reg, p.thing, p.type, p.cleanup)
       /\ prior' = 0
       /\ UNCHANGED <<out, log>>
  \/ \E reg \in OpRegs, num_entries \in RotateArgs :
       /\ Rotate(reg, num_entries)
       /\ prior' = IF op.name = "rotate_entries" THEN op.num_entries ELSE 0
       /\ UNCHANGED <<out, log>>
  \/ \E reg \in OpRegs :
       /\ Pop(reg, FALSE, NO_STACK_ENTRY_TYPE)
       /\ prior' = IF op.name = "rotate_entries" THEN op.num_entries ELSE 0
       /\ UNCHANGED <<out, log>>

SpecRotate == Init /\ [][NextRotate]_vars

(* SpecEntry: both stacks are pushed and popped, and read at every depth,   *)
(* negative depths included.  The user stack is pushed integers, the        *)
(* dynamic environment objects with a finalizer.                            *)
EntryPushed(reg) ==
  IF reg = "user_stack"
  THEN [thing |-> 1, type |-> STACK_ENTRY_INT, cleanup |-> STACK_CLEANUP_NULL]
  ELSE [thing |-> 1, type |-> STACK_ENTRY_PMC, cleanup |-> CleanupA]
EntryDepths == (0 - (MaxEntryHeight + 1)) .. (MaxEntryHeight + 1)

NextEntry ==
  \/ \E reg \in StackRegs :
       /\ stack_height(chunks, interp[reg]) < MaxEntryHeight
       /\ Push(reg, EntryPushed(reg).thing, EntryPushed(reg).type,
               EntryPushed(reg).cleanup)
       /\ out' = NoOut
       /\ log' = <<>>
       /\ UNCHANGED prior
  \/ \E reg \in StackRegs :
       /\ Pop(reg, FALSE, NO_STACK_ENTRY_TYPE)
       /\ out' = NoOut
       /\ log' = <<>>
       /\ UNCHANGED prior
  \/ \E reg \in StackRegs : StackHeight(reg) /\ UNCHANGED prior
  \/ \E reg \in StackRegs, depth \in EntryDepths :
       StackEntry(reg, depth) /\ UNCHANGED prior
  \/ \E reg \in StackRegs, typep \in BOOLEAN :
       Peek(reg, typep) /\ UNCHANGED prior
  \/ \E reg \in StackRegs, depth \in EntryDepths :
       GetEntryType(reg, depth) /\ UNCHANGED prior

SpecEntry == Init /\ [][NextEntry]_vars

(* SpecRead: one stack holding entries of every type, pushed, popped and    *)
(* rotated, then peeked at, marked and dumped.                              *)
ReadPushed ==
  { [thing |-> 1, type |-> STACK_ENTRY_INT, cleanup |-> STACK_CLEANUP_NULL],
    [thing |-> 1, type |-> STACK_ENTRY_FLOAT, cleanup |-> STACK_CLEANUP_NULL],
    [thing |-> 0, type |-> STACK_ENTRY_STRING, cleanup |-> STACK_CLEANUP_NULL],
    [thing |-> 1, type |-> STACK_ENTRY_STRING, cleanup |-> CleanupA],
    [thing |-> 0, type |-> STACK_ENTRY_PMC, cleanup |-> CleanupA],
    [thing |-> 1, type |-> STACK_ENTRY_PMC, cleanup |-> STACK_CLEANUP_NULL],
    [thing |-> 1, type |-> STACK_ENTRY_POINTER, cleanup |-> STACK_CLEANUP_NULL],
    [thing |-> 1, type |-> STACK_ENTRY_DESTINATION, cleanup |-> STACK_CLEANUP_NULL],
    [thing |-> 1, type |-> STACK_ENTRY_MARK, cleanup |-> STACK_CLEANUP_NULL],
    [thing |-> 0, type |-> STACK_ENTRY_ACTION, cleanup |-> STACK_CLEANUP_NULL],
    [thing |-> 1, type |-> STACK_ENTRY_ACTION, cleanup |-> CleanupA] }
ReadRotateArgs == (0 - MaxTypedHeight) .. MaxTypedHeight

NextRead ==
  \/ \E reg \in OpRegs, p \in ReadPushed :
       /\ stack_height(chunks, interp[reg]) < MaxTypedHeight
       /\ Push(reg, p.thing, p.type, p.cleanup)
       /\ out' = NoOut
       /\ log' = <<>>
       /\ UNCHANGED prior
  \/ \E reg \in OpRegs :
       /\ Pop(reg, FALSE, NO_STACK_ENTRY_TYPE)
       /\ out' = NoOut
       /\ log' = <<>>
       /\ UNCHANGED prior
  \/ \E reg \in OpRegs, num_entries \in ReadRotateArgs :
       /\ Rotate(reg, num_entries)
       /\ out' = NoOut
       /\ log' = <<>>
       /\ UNCHANGED prior
  \/ \E reg \in OpRegs, typep \in BOOLEAN : Peek(reg, typep) /\ UNCHANGED prior
  \/ \E reg \in OpRegs : Mark(reg) /\ UNCHANGED prior
  \/ \E reg \in OpRegs : Dump(reg) /\ UNCHANGED prior

SpecRead == Init /\ [][NextRead]_vars

----------------------------------------------------------------------------
(* What the claims are stated over: the stack the calls are made on, as it  *)
(* is now (before is the same stack as the last call found it).             *)

Top == interp.dynamic_env
Now == StackContents(chunks, Top)
Height == stack_height(chunks, Top)
EntryAt(depth) == stack_entry(chunks, interp.user_stack, Top, depth)

RECURSIVE StackChunks(_, _)
StackChunks(ch, chunk) ==
  IF ch[chunk].prev = chunk
  THEN <<>>
  ELSE <<chunk>> \o StackChunks(ch, ch[chunk].prev)

PushedOk == op.name = "stack_push" /\ Running
PoppedOk == op.name = "stack_pop" /\ Running
Rotated == op.name = "rotate_entries"

IntEntry(n) ==
  [ entry_type |-> STACK_ENTRY_INT, entry |-> [member |-> UVal_int, bits |-> n],
    cleanup |-> STACK_CLEANUP_NULL ]

----------------------------------------------------------------------------
\* After a successful push the pushed entry is on top of the entries there
\* were; after a successful pop the entries below the old top are left, and
\* with a destination the payload of the old top is in it.
C1_State ==
  /\ PushedOk =>
       /\ op.type \in EntryTypes
       /\ Len(Now) = Len(before) + 1
       /\ Tail(Now) = before
       /\ Head(Now).entry_type = op.type
       /\ Head(Now).entry.bits = op.thing
       /\ Head(Now).cleanup = op.cleanup
  /\ PoppedOk => Now = Tail(before)
  /\ PoppedOk /\ op.where =>
       /\ op.type = Head(before).entry_type
       /\ dest.written
       /\ dest.bits = Head(before).entry.bits
       /\ ret = RetWhere

\* A pop with a destination and the type just pushed, made right after the
\* push, writes the thing pushed.
C1_Step ==
  ( /\ PushedOk
    /\ op'.name = "stack_pop"
    /\ op'.where
    /\ op'.type = op.type )
  => /\ exception' = NoException
     /\ dest'.written
     /\ dest'.bits = op.thing
     /\ ret' = RetWhere

\* C1: a push of v with any of the eight types, followed at once by a pop with
\* a destination and the same type, writes exactly v to the destination; and a
\* pop returns the value of the most recently pushed entry not yet popped: a
\* push puts its entry on top of the entries there were, a pop with a
\* destination writes the payload of the top entry and leaves the others.
C1_PushPopLIFO == [](C1_State) /\ [][C1_Step]_vars

C1_Witness ==
  /\ PoppedOk
  /\ op.where
  /\ op.type = STACK_ENTRY_FLOAT
  /\ Len(before) = 2
  /\ before[1].entry.bits = 1
  /\ before[2].entry.bits = 0
  /\ dest.written
  /\ dest.bits = 1

\* The chunks met walking prev from c, for at most fuel steps.
RECURSIVE Reach(_, _, _)
Reach(ch, c, fuel) ==
  IF fuel = 0 \/ c = NULL
  THEN {}
  ELSE {c} \cup (IF ch[c].prev = c THEN {} ELSE Reach(ch, ch[c].prev, fuel - 1))

OneBase(ch, top) ==
  LET reached == Reach(ch, top, Cardinality(ChunkIds) + 1)
  IN  /\ \A c \in reached : ch[c].prev # NULL
      /\ Cardinality({c \in reached : ch[c].prev = c}) = 1

\* C2: walking prev from the top reaches exactly one chunk linked to itself,
\* and while no call has failed stack_height is the number of successful
\* pushes minus the number of successful pops: a push raises it by one, a pop
\* lowers it by one, a rotation leaves it.
C2_HeightIsPushesMinusPops ==
  /\ OneBase(chunks, Top)
  /\ Running => Height = net.dynamic_env
  /\ PushedOk => Height = Len(before) + 1
  /\ PoppedOk => Height = Len(before) - 1
  /\ Rotated /\ Running => Height = Len(before)

C2_Witness ==
  /\ PoppedOk
  /\ Len(before) = 3
  /\ Height = 2
  /\ net.dynamic_env = 2

\* The finalizer calls of the last call.
CleanupCalls == Len(SelectSeq(events, LAMBDA e : e # CopyEvent))

Depths == 0 .. (MaxHeight + 1)

\* C4: stack_entry at depth d of a stack of height h is the entry d chunks
\* below the top when 0 <= d < h and NULL when d >= h; a push puts its entry at
\* depth 0 and moves every other entry one deeper, so depth d holds the entry
\* pushed (h - d)-th.
C4_EntryAtDepth ==
  /\ \A d \in Depths :
       IF d < Len(Now)
       THEN /\ EntryAt(d) # NULL
            /\ EntryAt(d) = StackChunks(chunks, Top)[d + 1]
            /\ STACK_DATAP(chunks, EntryAt(d)) = Now[d + 1]
       ELSE EntryAt(d) = NULL
  /\ PushedOk =>
       /\ STACK_DATAP(chunks, EntryAt(0)).entry_type = op.type
       /\ STACK_DATAP(chunks, EntryAt(0)).entry.bits = op.thing
       /\ \A d \in 1 .. Len(before) : STACK_DATAP(chunks, EntryAt(d)) = before[d]
       /\ EntryAt(Len(before) + 1) = NULL

C4_Witness ==
  /\ PushedOk
  /\ op.thing = 3
  /\ before = <<IntEntry(2), IntEntry(1)>>
  /\ STACK_DATAP(chunks, EntryAt(0)) = IntEntry(3)
  /\ STACK_DATAP(chunks, EntryAt(1)) = IntEntry(2)
  /\ STACK_DATAP(chunks, EntryAt(2)) = IntEntry(1)
  /\ EntryAt(3) = NULL

\* C5: rotate_entries with n >= 2 on a stack of height >= n moves the entry at
\* depth 0 to depth n-1 and each entry at depth i+1 < n to depth i; the
\* entries at depth >= n and the height stay.
C5_BubbleUp ==
  ( /\ Rotated
    /\ op.num_entries >= 2
    /\ Len(before) >= op.num_entries )
  => /\ Running
     /\ Len(Now) = Len(before)
     /\ Now[op.num_entries] = before[1]
     /\ \A i \in 1 .. (op.num_entries - 1) : Now[i] = before[i + 1]
     /\ \A j \in (op.num_entries + 1) .. Len(before) : Now[j] = before[j]

C5_Witness ==
  /\ Rotated
  /\ op.num_entries = 3
  /\ before = <<IntEntry(3), IntEntry(2), IntEntry(1)>>
  /\ Now = <<IntEntry(2), IntEntry(1), IntEntry(3)>>

\* C6: rotate_entries with n <= -2, w = |n|, on a stack of height >= w moves
\* the entry at depth w-1 to depth 0 and each entry at depth i <= w-2 to depth
\* i+1; the entries at depth >= w and the height stay.
C6_BubbleDown ==
  ( /\ Rotated
    /\ op.num_entries <= -2
    /\ Len(before) >= 0 - op.num_entries )
  => LET w == 0 - op.num_entries
     IN  /\ Running
         /\ Len(Now) = Len(before)
         /\ Now[1] = before[w]
         /\ \A i \in 1 .. (w - 1) : Now[i + 1] = before[i]
         /\ \A j \in (w + 1) .. Len(before) : Now[j] = before[j]

C6_Witness ==
  /\ Rotated
  /\ op.num_entries = -3
  /\ before = <<IntEntry(2), IntEntry(1), IntEntry(3)>>
  /\ Now = <<IntEntry(3), IntEntry(2), IntEntry(1)>>

\* The rotation back, made right after a successful rotation of two entries
\* or more, raises nothing and leaves the entries as the first one found them.
C7_Step ==
  ( /\ Rotated
    /\ Running
    /\ (op.num_entries >= 2 \/ op.num_entries <= -2)
    /\ op'.name = "rotate_entries"
    /\ op'.num_entries = 0 - op.num_entries )
  => /\ exception' = NoException
     /\ StackContents(chunks', interp'.dynamic_env) = before

\* C7: a rotation by w, 2 <= w <= height, followed at once by the rotation by
\* -w leaves every entry (tag, payload, cleanup) at every depth as it was
\* before the two; and so does -w followed by w.
C7_RotateThenBack == [][C7_Step]_vars

C7_Witness ==
  /\ Rotated
  /\ Running
  /\ op.num_entries = -3
  /\ prior = 3
  /\ Len(Now) = 3
  /\ Now[1] # Now[2]
  /\ Now[2] # Now[3]
  /\ Now[1] # Now[3]
  /\ before # Now

\* C8: rotate_entries with n in {-1, 0, 1} raises nothing and leaves every
\* entry and the height, whatever the stack holds, the empty stack included.
C8_SmallRotationNoOp ==
  (Rotated /\ op.num_entries \in {-1, 0, 1}) => (Running /\ Now = before)

C8_Witness ==
  /\ Rotated
  /\ op.num_entries = 1
  /\ before = <<>>
  /\ Running

\* C9: rotate_entries with |n| >= 2 and |n| > height raises ERROR_STACK_SHALLOW,
\* for either sign of n, with every entry and the height as they were.
C9_ShallowStack ==
  ( /\ Rotated
    /\ (op.num_entries > Len(before) \/ 0 - op.num_entries > Len(before))
    /\ (op.num_entries >= 2 \/ op.num_entries <= -2) )
  => /\ exception = ERROR_STACK_SHALLOW
     /\ Now = before
     /\ Height = Len(before)

C9_Witness ==
  /\ Rotated
  /\ op.num_entries = -3
  /\ Len(before) = 2
  /\ exception = ERROR_STACK_SHALLOW

\* C10: stack_pop with a type other than 0 that is not the tag of the top
\* entry raises ERROR_BAD_STACK_TYPE, with or without a destination, and
\* writes nothing to the destination.
C10_WrongTypeOnTop ==
  ( /\ op.name = "stack_pop"
    /\ op.type # NO_STACK_ENTRY_TYPE
    /\ op.type # Head(before).entry_type )
  => /\ exception = ERROR_BAD_STACK_TYPE
     /\ dest = Unwritten
     /\ ret = RetNone

C10_Witness ==
  /\ op.name = "stack_pop"
  /\ op.where
  /\ op.type = STACK_ENTRY_INT
  /\ Head(before).entry_type = STACK_ENTRY_FLOAT
  /\ exception = ERROR_BAD_STACK_TYPE
  /\ dest = Unwritten

\* The finalizer calls stack_pop makes for an entry.
Finalized(e) ==
  IF e.cleanup # STACK_CLEANUP_NULL THEN <<e.cleanup>> ELSE <<>>

\* C11: stack_pop with type 0 and no destination succeeds whatever the tag of
\* the top entry: the entry is taken off, the height is one less, its
\* finalizer (if any) is called and NULL is returned; with type 0 and a
\* destination it raises ERROR_BAD_STACK_TYPE whatever the tag, and nothing
\* is written to the destination.
C11_WildcardPop ==
  (op.name = "stack_pop" /\ op.type = NO_STACK_ENTRY_TYPE)
  => IF op.where
     THEN /\ exception = ERROR_BAD_STACK_TYPE
          /\ dest = Unwritten
          /\ ret = RetNone
     ELSE /\ Running
          /\ Height = Len(before) - 1
          /\ Now = Tail(before)
          /\ events = Finalized(Head(before))
          /\ dest = Unwritten
          /\ ret = RetNull

C11_Witness ==
  /\ op.name = "stack_pop"
  /\ op.type = NO_STACK_ENTRY_TYPE
  /\ ~op.where
  /\ Head(before).entry_type = STACK_ENTRY_STRING
  /\ Head(before).cleanup = CleanupA
  /\ Len(before) = 2
  /\ Height = 1
  /\ events = <<CleanupA>>
  /\ ret = RetNull

\* C12: stack_push raises ERROR_BAD_STACK_TYPE exactly for the types no case
\* label names; at the raise the fresh chunk is on top of the entries there
\* were (the height is one more) and holds the type and the cleanup passed.
\* A push with one of the eight types raises nothing.
C12_PushBadType ==
  op.name = "stack_push"
  => /\ op.type \in EntryTypes => Running
     /\ op.type \notin EntryTypes => exception = ERROR_BAD_STACK_TYPE
     /\ exception # NoException =>
          /\ Height = Len(before) + 1
          /\ Tail(Now) = before
          /\ Head(Now).entry_type = op.type
          /\ Head(Now).cleanup = op.cleanup

C12_Witness ==
  /\ op.name = "stack_push"
  /\ op.type = STACK_ENTRY_UNKNOWN
  /\ op.cleanup = CleanupA
  /\ exception = ERROR_BAD_STACK_TYPE
  /\ Len(before) = 1
  /\ Height = 2
  /\ Head(Now).entry_type = STACK_ENTRY_UNKNOWN
  /\ Head(Now).cleanup = CleanupA

ReadCalls == {"stack_peek", "stack_height", "stack_entry", "get_entry_type"}

\* A step that is one of the four calls leaves every chunk (its link and its
\* entry), both top pointers and both heights, and calls no finalizer.
C13_Step ==
  op'.name \in ReadCalls
  => /\ chunks' = chunks
     /\ interp' = interp
     /\ \A reg \in StackRegs :
          /\ StackChunks(chunks', interp'[reg]) = StackChunks(chunks, interp[reg])
          /\ StackContents(chunks', interp'[reg]) = StackContents(chunks, interp[reg])
          /\ stack_height(chunks', interp'[reg]) = stack_height(chunks, interp[reg])
     /\ events' = <<>>
     /\ exception' = NoException

\* C13: stack_peek, stack_height, stack_entry and get_entry_type, called in
\* any state with any argument, leave the chain of chunks, every entry (tag,
\* payload, cleanup) and the height as they were, and call no finalizer.
C13_ReadsLeaveStack == [][C13_Step]_vars

C13_Witness ==
  /\ op.name = "stack_peek"
  /\ op.reg = "dynamic_env"
  /\ op.typep
  /\ out.type = STACK_ENTRY_PMC
  /\ before = <<[ entry_type |-> STACK_ENTRY_PMC,
                  entry |-> [member |-> UVal_pmc, bits |-> 1],
                  cleanup |-> CleanupA ],
                [ entry_type |-> STACK_ENTRY_PMC,
                  entry |-> [member |-> UVal_pmc, bits |-> 1],
                  cleanup |-> CleanupA ]>>
  /\ Now = before
  /\ Height = 2
  /\ events = <<>>

\* The chunk that is the bottom of the stack of reg.
Base(reg) == EntryWalk(chunks, interp[reg], Cardinality(ChunkIds))

ChunkReports == SelectSeq(log, LAMBDA r : r.kind = "chunk")
ObjectReports == SelectSeq(log, LAMBDA r : r.kind # "chunk")
Referring ==
  SelectSeq(Now, LAMBDA e : /\ e.entry_type \in {STACK_ENTRY_PMC, STACK_ENTRY_STRING}
                            /\ e.entry.bits # NULL)

\* C14: mark_stack on a stack of height h returns after reporting h + 1
\* chunks live: the chunks from the top down, each once, the base last; and
\* it reports an object live for exactly the entries above the base whose
\* tag is STACK_ENTRY_PMC or STACK_ENTRY_STRING and whose payload is not
\* null, that payload being the object.  No other tag (STACK_ENTRY_ACTION
\* included) adds a report.
C14_MarkReports ==
  op.name = "mark_stack"
  => /\ Running
     /\ Len(ChunkReports) = Height + 1
     /\ \A i \in 1 .. Height : ChunkReports[i].obj = StackChunks(chunks, Top)[i]
     /\ ChunkReports[Height + 1].obj = Base("dynamic_env")
     /\ log[Len(log)] = ChunkLive(Base("dynamic_env"))
     /\ Len(ObjectReports) = Len(Referring)
     /\ \A i \in 1 .. Len(Referring) :
          /\ ObjectReports[i].obj = Referring[i].entry.bits
          /\ ObjectReports[i].kind = Referring[i].entry.member

C14_Witness ==
  /\ op.name = "mark_stack"
  /\ Height = 2
  /\ Now[1].entry_type = STACK_ENTRY_ACTION
  /\ Now[1].entry.bits = 1
  /\ Now[2].entry_type = STACK_ENTRY_STRING
  /\ Now[2].entry.bits = 1
  /\ Len(log) = 4
  /\ log[3] = ObjectLive(UVal_str, 1)

\* The stack stack_entry was last called on, as chunks from the top.
Passed == StackChunks(chunks, interp[op.reg])

C16_FromBottomOfStackPassed ==
  (op.name = "stack_entry" /\ op.depth < 0)
  => IF 0 - op.depth > Len(Passed)
     THEN out.entry = NULL
     ELSE out.entry = Passed[Len(Passed) + op.depth + 1]

\* How many times e is in the sequence s.
Count(e, s) == Cardinality({i \in DOMAIN s : s[i] = e})

\* An entry as the arguments of the stack_push that stores it.
AsPushed(e) == [thing |-> e.entry.bits, type |-> e.entry_type, cleanup |-> e.cleanup]

\* A rotation that raises nothing leaves both top pointers and every prev
\* link, and the entries of the stack are after it what they were before it,
\* each as many times.
C17_Step ==
  (op'.name = "rotate_entries" /\ exception' = NoException)
  => /\ interp' = interp
     /\ \A c \in ChunkIds : chunks'[c].prev = chunks[c].prev
     /\ StackChunks(chunks', interp'.dynamic_env) = StackChunks(chunks, Top)
     /\ LET was == StackContents(chunks, Top)
            is == StackContents(chunks', interp'.dynamic_env)
        IN  /\ Len(is) = Len(was)
            /\ \A i \in DOMAIN was : Count(was[i], is) = Count(was[i], was)

\* Every entry on the stack has the tag, the payload and the finalizer of one
\* stack_push, and a pop calls the finalizer of the entry it takes off.
C17_State ==
  Running
  => /\ \A i \in DOMAIN Now : AsPushed(Now[i]) \in RotatePushed
     /\ op.name = "stack_pop" =>
          /\ AsPushed(Head(before)) \in RotatePushed
          /\ events = Finalized(Head(before))

\* C17: rotate_entries copies whole entries.  After a rotation that raises
\* nothing the stack holds the same (tag, payload, cleanup) triples, each as
\* many times as before; tag and finalizer stay with their payload; the top
\* pointer and the prev links are as they were; and a later pop of a rotated
\* entry calls the finalizer that entry was pushed with.
C17_RotationCopiesEntries == [](C17_State) /\ [][C17_Step]_vars

C17_Witness ==
  /\ PoppedOk
  /\ prior = 3
  /\ Len(before) = 3
  /\ Head(before).entry_type = STACK_ENTRY_PMC
  /\ before[2].entry_type = STACK_ENTRY_INT
  /\ before[3].entry_type = STACK_ENTRY_FLOAT
  /\ before[3].cleanup = CleanupB
  /\ events = <<CleanupA>>

\* C18 as claimed: stack_peek on a stack that is not empty gives the tag and
\* the payload of the entry at depth 0, whatever the tag; on an empty stack
\* it returns NULL and writes no type.
C18_Original ==
  op.name = "stack_peek"
  => IF Now = <<>>
     THEN out.value = NULL /\ out.type = TypeUnwritten
     ELSE /\ out.value = Head(Now).entry.bits
          /\ op.typep => out.type = Head(Now).entry_type

\* C18 as amended: stack_peek on a stack that is not empty writes the tag of
\* the entry at depth 0 to the type when the caller passed one, and returns
\* the payload of that entry for every tag but STACK_ENTRY_FLOAT; for
\* STACK_ENTRY_FLOAT it returns the object member of the union, the bits of
\* the number read as a pointer.  On an empty stack it returns NULL and
\* writes no type.
C18_Peek ==
  op.name = "stack_peek"
  => /\ Running
     /\ IF Now = <<>>
        THEN out.value = NULL /\ out.type = TypeUnwritten
        ELSE /\ out.value =
                  (IF Head(Now).entry_type = STACK_ENTRY_FLOAT
                   THEN BitPattern(Head(Now).entry.bits)
                   ELSE Head(Now).entry.bits)
             /\ out.type = (IF op.typep THEN Head(Now).entry_type ELSE TypeUnwritten)

C18_Witness ==
  /\ op.name = "stack_peek"
  /\ op.typep
  /\ Now = <<IntEntry(1)>>
  /\ out.type = STACK_ENTRY_INT
  /\ out.value = 1

ChunkLines == SelectSeq(log, LAMBDA l : l.line = "chunk")

\* C20: Parrot_dump_dynamic_environment, on any stack that pushes, pops and
\* rotations lead to, never raises "Control stack damaged" and returns after
\* printing a line for each chunk above the base, from the top down, each
\* once, numbered from the height down to 1, and last the line of the base,
\* numbered 0.
C20_DumpPrintsEveryChunk ==
  op.name = "Parrot_dump_dynamic_environment"
  => /\ exception # CONTROL_STACK_DAMAGED
     /\ Running
     /\ Len(ChunkLines) = Height
     /\ \A i \in 1 .. Height :
          /\ ChunkLines[i].chunk = StackChunks(chunks, Top)[i]
          /\ ChunkLines[i].index = Height - i + 1
     /\ log[Len(log)] = BaseLine(0, Base("dynamic_env"))

====
